---- MODULE Spec2Model ----
(***************************************************************************)
(* Model of src/src/coap_io_riot.c: the libcoap network I/O layer on RIOT. *)
(*                                                                         *)
(* State: the context's endpoint list, the sockets' flag sets and pending  *)
(* fragment chains, the thread's message queue, and the position of the    *)
(* single thread inside coap_run_once (gather, wait, dispatch, drive,      *)
(* cleanup).  coap_network_read, get_udp_header and get_port are operators *)
(* computed as the C code computes them.                                   *)
(***************************************************************************)
EXTENDS Integers, Sequences, FiniteSets, TLC

(***************************************************************************)
(* Bounds of the model.                                                    *)
(***************************************************************************)
\* number of endpoints on ctx->endpoint; one more socket belongs to a session
NumEndpoints == 2
\* longest datagram payload delivered by the stack
MaxPayload == 7
\* notifications the thread's message queue holds at once
MaxQueue == 1

(***************************************************************************)
(* Program constants.  COAP_RXBUFFER_SIZE and LIBCOAP_MAX_SOCKETS are      *)
(* scaled down; size_t is taken 16 bits wide, as on RIOT's 16-bit targets. *)
(***************************************************************************)
COAP_RXBUFFER_SIZE == 6
LIBCOAP_MAX_SOCKETS == 2
SizeofUdpHdr == 8
SizeMod == 65536
US_PER_SEC == 1000000
US_PER_MS == 1000
EFAULT == 14
\* size of a UDP snip whose header region is cut short
ShortUdp == 3
SizeofSockaddrIn6 == 28
SizeofSockaddrIn == 16
COAP_TICKS_PER_SECOND == 1000

Socks == 1..(NumEndpoints + 1)
SessionSock == NumEndpoints + 1

\* sock->fd: every open socket has its own descriptor
fd(s) == s + 2

\* ports are kept as their two on-wire bytes
Port5683 == <<22, 51>>
Port5684 == <<22, 52>>
PeerPort == <<200, 1>>
NoPort == <<0, 0>>
Ports == {Port5683, Port5684}
\* bound addresses of the first endpoint; the others are bound to Port5683
EndpointAddrs ==
  {[family |-> "AF_INET6", port |-> Port5683], [family |-> "AF_INET6", port |-> Port5684],
   [family |-> "AF_INET", port |-> Port5684], [family |-> "AF_UNSPEC", port |-> Port5683]}
PeerAddr == "fe80::2"
LocalAddr == "fe80::1"

(***************************************************************************)
(* Fragment chains (gnrc_pktsnip_t lists).  A received chain runs from the *)
(* payload snip over the UDP and IPv6 snips to the netif snip.             *)
(***************************************************************************)
Hello == <<104, 101, 108, 108, 111>>
PayloadByte(i) == IF i <= Len(Hello) THEN Hello[i] ELSE 32 + i
Payload(L) == [i \in 1..L |-> PayloadByte(i)]
PayloadLens == {0, Len(Hello), MaxPayload}

Snip(t, sz, nul, s, d, b) ==
  [type |-> t, size |-> sz, null |-> nul, src |-> s, dst |-> d, bytes |-> b]
PayloadSnip(L) == Snip("UNDEF", L, FALSE, NoPort, NoPort, Payload(L))
UdpSnip(sz, nul, dport) == Snip("UDP", sz, nul, PeerPort, dport, <<>>)
Ipv6Snip == Snip("IPV6", 40, FALSE, PeerAddr, LocalAddr, <<>>)
NetifSnip == Snip("NETIF", 0, FALSE, NoPort, NoPort, <<>>)

WellFormedChain(dport, L) ==
  <<PayloadSnip(L), UdpSnip(SizeofUdpHdr, FALSE, dport), Ipv6Snip, NetifSnip>>
ShortUdpChain(dport, L) ==
  <<PayloadSnip(L), UdpSnip(ShortUdp, FALSE, dport), Ipv6Snip, NetifSnip>>
NoUdpDataChain(dport, L) ==
  <<PayloadSnip(L), UdpSnip(SizeofUdpHdr, TRUE, dport), Ipv6Snip, NetifSnip>>
NoUdpChain(L) == <<PayloadSnip(L), Ipv6Snip, NetifSnip>>
NoIpv6Chain(dport, L) ==
  <<PayloadSnip(L), UdpSnip(SizeofUdpHdr, FALSE, dport), NetifSnip>>

NullChain == <<>>
WellFormedChains ==
  {WellFormedChain(Port5683, L) : L \in PayloadLens}
    \cup {WellFormedChain(Port5684, Len(Hello))}
MalformedChains ==
  {ShortUdpChain(Port5683, 0), NoUdpDataChain(Port5683, 1), NoUdpChain(1),
   NoIpv6Chain(Port5683, 1)}
Chains == WellFormedChains \cup MalformedChains

RECURSIVE SearchFrom(_, _, _)
SearchFrom(pkt, type, i) ==
  IF i > Len(pkt) THEN 0
  ELSE IF pkt[i].type = type THEN i
  ELSE SearchFrom(pkt, type, i + 1)

\* index of the first snip of the type, 0 for NULL
gnrc_pktsnip_search_type(pkt, type) == SearchFrom(pkt, type, 1)

RECURSIVE LenUpto(_, _, _)
LenUpto(pkt, type, i) ==
  IF i > Len(pkt) THEN 0
  ELSE IF pkt[i].type = type THEN pkt[i].size
  ELSE pkt[i].size + LenUpto(pkt, type, i + 1)

\* sum of the snip sizes from the head up to and including the first snip of the type
gnrc_pkt_len_upto(pkt, type) == LenUpto(pkt, type, 1)

\* index of the IPv6 snip whose data is the network header, 0 for NULL
gnrc_ipv6_get_header(pkt) ==
  LET i == gnrc_pktsnip_search_type(pkt, "IPV6")
  IN IF i # 0 /\ ~pkt[i].null THEN i ELSE 0

\* udp ? udp->data : NULL, as the index of the UDP snip or 0 for NULL
get_udp_header(pkt) ==
  LET udp == gnrc_pktsnip_search_type(pkt, "UDP")
  IN IF udp # 0 /\ ~pkt[udp].null THEN udp ELSE 0

\* the snips in front of the UDP snip lie behind its data in the packet buffer
RECURSIVE BytesBefore(_, _)
BytesBefore(pkt, u) ==
  IF u <= 1 THEN <<>> ELSE BytesBefore(pkt, u - 1) \o pkt[u - 1].bytes

\* byte at (uint8_t *)udp_hdr + off; past the buffer the read yields junk
MemAt(pkt, u, off, junk) ==
  LET after == BytesBefore(pkt, u)
      k == off - pkt[u].size + 1
  IN IF k >= 1 /\ k <= Len(after) THEN after[k] ELSE junk

(***************************************************************************)
(* Packet record (struct coap_packet_t).                                   *)
(***************************************************************************)
Uninit == -1
UninitAddr ==
  [size |-> Uninit, family |-> "uninit", port |-> NoPort, addr |-> "uninit",
   flowinfo |-> Uninit, scope_id |-> Uninit]
Unpopulated ==
  [length |-> Uninit, payload |-> [i \in 1..COAP_RXBUFFER_SIZE |-> Uninit],
   src |-> UninitAddr, dst |-> UninitAddr, ifindex |-> Uninit]

\* memset to zero, then family, address and port
Sockaddr6(a, p) ==
  [size |-> SizeofSockaddrIn6, family |-> "AF_INET6", port |-> p, addr |-> a,
   flowinfo |-> 0, scope_id |-> 0]

\* memcpy(packet->payload, (uint8_t *)udp_hdr + sizeof(udp_hdr_t), len)
CopyPayload(buf, pkt, u, len, junk) ==
  [i \in 1..COAP_RXBUFFER_SIZE |->
     IF i <= len THEN MemAt(pkt, u, SizeofUdpHdr + i - 1, junk) ELSE buf[i]]

\* the same length with the clamp to the buffer size left out
ReadLenUnclamped(pkt) ==
  (gnrc_pkt_len_upto(pkt, "UDP") - SizeofUdpHdr) % SizeMod

\* len = (size_t)gnrc_pkt_len_upto(sock->pkt, type) - sizeof(udp_hdr_t), clamped
ReadLen(pkt) ==
  LET len == (gnrc_pkt_len_upto(pkt, "UDP") - SizeofUdpHdr) % SizeMod
  IN IF len > COAP_RXBUFFER_SIZE THEN COAP_RXBUFFER_SIZE ELSE len

\* the early return with the record's length zeroed on the way out
NotReadableZeroLength(sflags, spkt, packet) ==
  [ret |-> -1, flags |-> sflags, pkt |-> spkt,
   packet |-> [packet EXCEPT !.length = 0]]

\* CAN_READ is not set: log and return -1
NotReadable(sflags, spkt, packet) ==
  [ret |-> -1, flags |-> sflags, pkt |-> spkt, packet |-> packet]

\* the has-data flag left as it is
KeepCanRead(sflags) == sflags

\* sock->flags &= ~COAP_SOCKET_CAN_READ
ClearCanRead(sflags) == sflags \ {"CAN_READ"}

\* the test without the check of udp->data
NoHeaderNullUnchecked(spkt) ==
  \/ gnrc_ipv6_get_header(spkt) = 0
  \/ gnrc_pktsnip_search_type(spkt, "UDP") = 0

\* !ipv6_hdr || !udp || !(udp_hdr = (udp_hdr_t *)udp->data)
NoHeader(spkt) ==
  \/ gnrc_ipv6_get_header(spkt) = 0
  \/ gnrc_pktsnip_search_type(spkt, "UDP") = 0
  \/ spkt[gnrc_pktsnip_search_type(spkt, "UDP")].null

\* the record with the source taken for the destination and the other way round
PopulateSwapped(sfd, spkt, packet, junk) ==
  LET udp == gnrc_pktsnip_search_type(spkt, "UDP")
      ipv6_hdr == gnrc_ipv6_get_header(spkt)
      len == ReadLen(spkt)
  IN [length |-> IF len > 0 THEN len ELSE 0,
      payload |-> CopyPayload(packet.payload, spkt, udp, len, junk),
      src |-> Sockaddr6(spkt[ipv6_hdr].dst, spkt[udp].dst),
      dst |-> Sockaddr6(spkt[ipv6_hdr].src, spkt[udp].src),
      ifindex |-> sfd]

\* lines 110-133: the record filled from the two headers and the payload
Populate(sfd, spkt, packet, junk) ==
  LET udp == gnrc_pktsnip_search_type(spkt, "UDP")
      ipv6_hdr == gnrc_ipv6_get_header(spkt)
      len == ReadLen(spkt)
  IN [length |-> IF len > 0 THEN len ELSE 0,
      payload |-> CopyPayload(packet.payload, spkt, udp, len, junk),
      src |-> Sockaddr6(spkt[ipv6_hdr].src, spkt[udp].src),
      dst |-> Sockaddr6(spkt[ipv6_hdr].dst, spkt[udp].dst),
      ifindex |-> sfd]

\* return EFAULT, the sign lost
FaultCodePositive == EFAULT

\* return -EFAULT
FaultCode == 0 - EFAULT

\* the Receive Path: the result, and the socket's flags, the socket's pending
\* chain and the record as the call leaves them
coap_network_read(sflags, sfd, spkt, packet, junk) ==
  IF "CAN_READ" \notin sflags
  THEN NotReadable(sflags, spkt, packet)
  ELSE IF NoHeader(spkt)
  THEN [ret |-> FaultCode, flags |-> ClearCanRead(sflags), pkt |-> spkt,
        packet |-> packet]
  ELSE [ret |-> ReadLen(spkt), flags |-> ClearCanRead(sflags), pkt |-> spkt,
        packet |-> Populate(sfd, spkt, packet, junk)]

(***************************************************************************)
(* Demultiplexer.                                                          *)
(***************************************************************************)
\* the port turned into host byte order before it is handed back
get_port_host_order(addr) ==
  CASE addr.family = "AF_INET" -> <<addr.port[2], addr.port[1]>>
    [] addr.family = "AF_INET6" -> <<addr.port[2], addr.port[1]>>
    [] OTHER -> NoPort

\* port of the address in network byte order, 0 on error
get_port(addr) ==
  CASE addr.family = "AF_INET" -> addr.port
    [] addr.family = "AF_INET6" -> addr.port
    [] OTHER -> NoPort

\* the for loop over the gathered sockets: first index that matches, 0 if none
RECURSIVE FirstSocket(_, _, _, _)
FirstSocket(ep, socks, fl, i) ==
  IF i > Len(socks) THEN 0
  ELSE IF fd(ep.sock) = fd(socks[i]) /\ "WANT_READ" \in fl[socks[i]] THEN i
  ELSE FirstSocket(ep, socks, fl, i + 1)

\* the scan with the comparison of the ports left out
RECURSIVE ScanEndpointsAnyPort(_, _, _, _, _, _)
ScanEndpointsAnyPort(eps, k, dport, socks, ptr, st) ==
  IF k > Len(eps) THEN st
  ELSE LET ep == eps[k]
           i == FirstSocket(ep, socks, st.flags, 1)
           st2 == IF i = 0 THEN st
                  ELSE [flags |-> [st.flags EXCEPT ![socks[i]] = @ \cup {"CAN_READ"}],
                        pkt |-> [st.pkt EXCEPT ![socks[i]] = ptr]]
       IN ScanEndpointsAnyPort(eps, k + 1, dport, socks, ptr, st2)

\* LL_FOREACH(ctx->endpoint, ep): the break leaves the inner loop only
RECURSIVE ScanEndpoints(_, _, _, _, _, _)
ScanEndpoints(eps, k, dport, socks, ptr, st) ==
  IF k > Len(eps) THEN st
  ELSE LET ep == eps[k]
           i == IF get_port(ep.bind_addr) = dport
                THEN FirstSocket(ep, socks, st.flags, 1) ELSE 0
           st2 == IF i = 0 THEN st
                  ELSE [flags |-> [st.flags EXCEPT ![socks[i]] = @ \cup {"CAN_READ"}],
                        pkt |-> [st.pkt EXCEPT ![socks[i]] = ptr]]
       IN ScanEndpoints(eps, k + 1, dport, socks, ptr, st2)

\* switch (msg.type) of coap_run_once
DispatchMsg(m, eps, socks, st) ==
  IF m.type = "RCV"
  THEN LET udp_hdr == get_udp_header(m.ptr)
       IN IF udp_hdr = 0 THEN st
          ELSE ScanEndpoints(eps, 1, m.ptr[udp_hdr].dst, socks, m.ptr, st)
  ELSE st

\* timeout = coap_write(...); if (timeout == 0 || timeout_ms < timeout) timeout = timeout_ms
ClampTimeout(timeout, timeout_ms) ==
  IF timeout = 0 \/ timeout_ms < timeout THEN timeout_ms ELSE timeout

\* the duration handed to xtimer_msg_receive_timeout, in microseconds
WaitArg(timeout, timeout_ms) == timeout_ms * US_PER_SEC

\* registration only when more than one socket was gathered
ShouldRegisterMany(num_sockets) == num_sockets > 1

\* if (num_sockets > 0) gnrc_netreg_register(GNRC_NETTYPE_UDP, &coap_reg)
ShouldRegister(num_sockets) == num_sockets > 0

\* (int)(((now - before) * 1000) / COAP_TICKS_PER_SECOND)
Elapsed(before, now) == ((now - before) * 1000) \div COAP_TICKS_PER_SECOND

(***************************************************************************)
(* State.                                                                  *)
(***************************************************************************)
(***************************************************************************)
(* coap_network_send, lines 50-71.  dbg is what coap_debug_send_packet()   *)
(* returns and netret what send or sendto returns; the result carries the  *)
(* calls made on the network, in order.                                    *)
(***************************************************************************)
\* (ssize_t)datalen
SsizeOf(n) == IF n >= SizeMod \div 2 THEN n - SizeMod ELSE n

\* the send path that never takes the connected branch
UseConnectedNever(sflags) == FALSE

\* sock->flags & COAP_SOCKET_CONNECTED
UseConnected(sflags) == "CONNECTED" \in sflags

\* the return that hides a failed send
SendReturnClamped(bytes_written) == IF bytes_written < 0 THEN 0 ELSE bytes_written

\* lines 67-70: the failure is logged and bytes_written is returned as it is
SendReturn(bytes_written) == bytes_written

SendCallOf(sfd, datalen) ==
  [op |-> "send", fd |-> sfd, len |-> datalen, flags |-> 0, to |-> <<>>]
SendtoCallOf(sfd, datalen, remote_addr) ==
  [op |-> "sendto", fd |-> sfd, len |-> datalen, flags |-> 0,
   to |-> <<remote_addr, remote_addr.size>>]

coap_network_send(sflags, sfd, remote_addr, datalen, dbg, netret) ==
  LET calls == IF dbg = 0 THEN <<>>
               ELSE IF UseConnected(sflags) THEN <<SendCallOf(sfd, datalen)>>
               ELSE <<SendtoCallOf(sfd, datalen, remote_addr)>>
      bytes_written == IF dbg = 0 THEN SsizeOf(datalen) ELSE netret
  IN [ret |-> SendReturn(bytes_written), calls |-> calls, flags |-> sflags,
      logged |-> bytes_written < 0]

VARIABLES
  endpoint,    \* ctx->endpoint: sequence of [bind_addr, sock]
  flags,       \* sock->flags of every socket
  pkt,         \* sock->pkt of every socket
  queue,       \* the thread's message queue
  pc,          \* position of the thread in coap_run_once
  sockets,     \* sockets[0..num_sockets-1] gathered by coap_write
  timeout,     \* timeout after the clamp
  timeout_ms,  \* the caller's timeout
  libTimeout,  \* what coap_write returned
  reg,         \* coap_reg is registered with the netreg
  msg,         \* the local msg_t
  rcvd,        \* the wait returned a message (FALSE: it timed out)
  waited,      \* microseconds handed to the blocking receive, -1 before the wait
  nread,       \* calls of coap_read in the current coap_run_once
  idx,         \* socket coap_read looks at next
  packet,      \* the packet record of the latest coap_network_read
  lastRead,    \* the latest coap_network_read call of the current coap_run_once
  got,         \* per socket, what coap_read's call of coap_network_read yielded
  woken,       \* sockets the latest dispatch has set CAN_READ on
  unreleased,  \* chains the latest coap_run_once dequeued and nobody has released
  nunreg,      \* calls of gnrc_netreg_unregister in the latest coap_run_once
  ndeq,        \* notifications the current coap_run_once has taken from the queue
  ticks,       \* the clock of the latest coap_run_once and the instants it passed
  lastSend     \* the latest coap_network_send: its arguments, its sends, its result

vars == <<endpoint, flags, pkt, queue, pc, sockets, timeout, timeout_ms,
          libTimeout, reg, msg, rcvd, waited, nread, idx, packet, lastRead,
          got, woken, unreleased, nunreg, ndeq, ticks, lastSend>>

MsgTypes == {"RCV", "SND", "SET", "GET", "OTHER"}
NoMsg == [type |-> "NONE", ptr |-> NullChain]
Msgs == {[type |-> "RCV", ptr |-> c] : c \in Chains}
          \cup {[type |-> t, ptr |-> NullChain] : t \in MsgTypes \ {"RCV"}}
NoRead == [sock |-> 0, again |-> FALSE, ret |-> 0, chain |-> NullChain,
           flagsBefore |-> {}, flagsAfter |-> {}, pktAfter |-> NullChain,
           inDrive |-> FALSE]
NoResult == [called |-> FALSE, ret |-> 0, packet |-> Unpopulated]
\* clk: the clock; before, now: the two coap_ticks samples; write, dispatch,
\* readStart, readEnd: when coap_write was called, when the switch was left,
\* when coap_read was entered and left; ret: what coap_run_once returned
NoTicks == [clk |-> 0, before |-> 0, now |-> 0, write |-> 0, dispatch |-> 0,
            readStart |-> 0, readEnd |-> 0, ret |-> 0]
NoSend == [called |-> FALSE, sock |-> 0, flagsBefore |-> {}, remote_addr |-> UninitAddr,
           datalen |-> 0, dbg |-> 0, netret |-> 0, ret |-> 0, calls |-> <<>>,
           logged |-> FALSE]
LibTimeouts == {0, 1, 3}
CallerTimeouts == {2}
Junk == {0, 255}

\* sockets coap_write may hand back: in list order, at most LIBCOAP_MAX_SOCKETS
RECURSIVE SeqOfSet(_, _)
SeqOfSet(S, i) ==
  IF i > NumEndpoints + 1 THEN <<>>
  ELSE (IF i \in S THEN <<i>> ELSE <<>>) \o SeqOfSet(S, i + 1)
Gatherable == {SeqOfSet(S, 1) : S \in {T \in SUBSET Socks : Cardinality(T) <= LIBCOAP_MAX_SOCKETS}}

Init ==
  /\ \E a \in EndpointAddrs :
        endpoint = [k \in 1..NumEndpoints |->
                      [bind_addr |-> IF k = 1 THEN a
                                     ELSE [family |-> "AF_INET6", port |-> Port5683],
                       sock |-> k]]
  /\ \E f \in SUBSET {"WANT_READ"} :
        flags = [s \in Socks |-> IF s = SessionSock THEN {"WANT_READ", "CONNECTED"}
                                  ELSE IF s = 1 THEN f ELSE {"WANT_READ"}]
  /\ pkt = [s \in Socks |-> NullChain]
  /\ queue = <<>>
  /\ pc = "idle"
  /\ sockets = <<>>
  /\ timeout = 0
  /\ timeout_ms = 0
  /\ libTimeout = 0
  /\ reg = FALSE
  /\ msg = NoMsg
  /\ rcvd = FALSE
  /\ waited = -1
  /\ nread = 0
  /\ idx = 0
  /\ packet = Unpopulated
  /\ lastRead = NoRead
  /\ got = [s \in Socks |-> NoResult]
  /\ woken = {}
  /\ unreleased = 0
  /\ nunreg = 0
  /\ ndeq = 0
  /\ ticks = NoTicks
  /\ lastSend = NoSend

(***************************************************************************)
(* The network stack or another thread posts a notification.  Datagrams    *)
(* reach the thread only while it is registered for UDP.  A notification   *)
(* posted while the thread is past the wait is not looked at before the    *)
(* next wait, so it is posted here while the thread is idle or waiting.    *)
(***************************************************************************)
StackDeliver(m) ==
  /\ pc \in {"idle", "wait"}
  /\ Len(queue) < MaxQueue
  /\ m.type = "RCV" => reg
  /\ queue' = Append(queue, m)
  /\ UNCHANGED <<endpoint, flags, pkt, pc, sockets, timeout, timeout_ms,
                 libTimeout, reg, msg, rcvd, waited, nread, idx, packet,
                 lastRead, got, woken, unreleased, nunreg, ndeq, ticks>>
  /\ UNCHANGED lastSend

(***************************************************************************)
(* coap_run_once, lines 177-188: first tick sample, coap_write, the clamp  *)
(* and the conditional registration.                                       *)
(***************************************************************************)
RunOnceGather(tmo_ms, socks, t) ==
  /\ pc = "idle"
  /\ pc' = "wait"
  /\ timeout_ms' = tmo_ms
  /\ libTimeout' = t
  /\ sockets' = socks
  /\ timeout' = ClampTimeout(ClampTimeout(t, tmo_ms), tmo_ms)
  /\ reg' = ShouldRegister(Len(socks))
  /\ msg' = NoMsg
  /\ rcvd' = FALSE
  /\ waited' = -1
  /\ nread' = 0
  /\ idx' = 0
  /\ packet' = Unpopulated
  /\ lastRead' = NoRead
  /\ got' = [s \in Socks |-> NoResult]
  /\ woken' = {}
  /\ unreleased' = 0
  /\ nunreg' = 0
  /\ ndeq' = 0
  /\ ticks' = [NoTicks EXCEPT !.before = 1, !.write = 2, !.clk = 3]
  /\ UNCHANGED <<endpoint, flags, pkt, queue>>
  /\ UNCHANGED lastSend

\* the wait that empties the queue and keeps the notification taken last
RunOnceWaitDrain ==
  /\ pc = "wait"
  /\ pc' = "dispatch"
  /\ waited' = WaitArg(timeout, timeout_ms)
  /\ IF queue # <<>>
     THEN /\ msg' = queue[Len(queue)]
          /\ queue' = <<>>
          /\ rcvd' = TRUE
          /\ ndeq' = ndeq + 1
          /\ unreleased' = IF queue[Len(queue)].type = "RCV" THEN unreleased + 1
                            ELSE unreleased
     ELSE /\ msg' \in Msgs
          /\ queue' = queue
          /\ rcvd' = FALSE
          /\ UNCHANGED <<ndeq, unreleased>>
  /\ ticks' = [ticks EXCEPT !.clk = @ + 1]
  /\ UNCHANGED <<endpoint, flags, pkt, sockets, timeout, timeout_ms, libTimeout,
                 reg, nread, idx, packet, lastRead, got, woken, nunreg>>
  /\ UNCHANGED lastSend

(***************************************************************************)
(* Line 190: the blocking receive.  It takes the head of the queue, or     *)
(* times out and leaves the local msg with whatever the stack held.        *)
(***************************************************************************)
RunOnceWait ==
  /\ pc = "wait"
  /\ pc' = "dispatch"
  /\ waited' = WaitArg(timeout, timeout_ms)
  /\ IF queue # <<>>
     THEN /\ msg' = Head(queue)
          /\ queue' = Tail(queue)
          /\ rcvd' = TRUE
          /\ ndeq' = ndeq + 1
          /\ unreleased' = IF Head(queue).type = "RCV" THEN unreleased + 1
                            ELSE unreleased
     ELSE /\ msg' \in Msgs
          /\ queue' = queue
          /\ rcvd' = FALSE
          /\ UNCHANGED <<ndeq, unreleased>>
  /\ ticks' = [ticks EXCEPT !.clk = @ + 1]
  /\ UNCHANGED <<endpoint, flags, pkt, sockets, timeout, timeout_ms, libTimeout,
                 reg, nread, idx, packet, lastRead, got, woken, nunreg>>
  /\ UNCHANGED lastSend

\* the dispatch that returns, instead of breaking, when no UDP header is found
RunOnceDispatchReturn ==
  /\ pc = "dispatch"
  /\ pc' = IF msg.type = "RCV" /\ get_udp_header(msg.ptr) = 0 THEN "cleanup" ELSE "drive"
  /\ LET st == DispatchMsg(msg, endpoint, sockets, [flags |-> flags, pkt |-> pkt])
         w == {s \in Socks : st.flags[s] # flags[s] \/ st.pkt[s] # pkt[s]}
     IN /\ flags' = st.flags
        /\ pkt' = st.pkt
        /\ woken' = w
  /\ timeout' = 0
  /\ timeout_ms' = 0
  /\ libTimeout' = 0
  /\ waited' = -1
  /\ ticks' = [ticks EXCEPT !.dispatch = ticks.clk, !.clk = @ + 1]
  /\ UNCHANGED <<endpoint, queue, sockets, reg, msg, rcvd, nread, idx, packet,
                 lastRead, got, unreleased, nunreg, ndeq>>
  /\ UNCHANGED lastSend

(***************************************************************************)
(* Lines 191-223: the switch on msg.type.                                  *)
(***************************************************************************)
RunOnceDispatch ==
  /\ pc = "dispatch"
  /\ pc' = "drive"
  /\ LET st == DispatchMsg(msg, endpoint, sockets, [flags |-> flags, pkt |-> pkt])
         w == {s \in Socks : st.flags[s] # flags[s] \/ st.pkt[s] # pkt[s]}
     IN /\ flags' = st.flags
        /\ pkt' = st.pkt
        /\ woken' = w
  /\ timeout' = 0
  /\ timeout_ms' = 0
  /\ libTimeout' = 0
  /\ waited' = -1
  /\ ticks' = [ticks EXCEPT !.dispatch = ticks.clk, !.clk = @ + 1]
  /\ UNCHANGED <<endpoint, queue, sockets, reg, msg, rcvd, nread, idx, packet,
                 lastRead, got, unreleased, nunreg, ndeq>>
  /\ UNCHANGED lastSend

(***************************************************************************)
(* Lines 225-226: second tick sample and the call of coap_read.            *)
(***************************************************************************)
RunOnceDrive ==
  /\ pc = "drive"
  /\ pc' = "read"
  /\ nread' = nread + 1
  /\ idx' = 1
  /\ ticks' = [ticks EXCEPT !.now = ticks.clk, !.readStart = ticks.clk + 1,
                            !.clk = @ + 2]
  /\ UNCHANGED <<endpoint, flags, pkt, queue, sockets, timeout, timeout_ms,
                 libTimeout, reg, msg, rcvd, waited, packet, lastRead,
                 got, woken, unreleased, nunreg, ndeq>>
  /\ UNCHANGED lastSend

\* one call of coap_network_read on socket s with a fresh packet record
NetworkRead(s, junk, drive) ==
  LET r == coap_network_read(flags[s], fd(s), pkt[s], Unpopulated, junk)
  IN /\ flags' = [flags EXCEPT ![s] = r.flags]
     /\ packet' = r.packet
     /\ lastRead' = [sock |-> s, again |-> lastRead.sock = s,
                     ret |-> r.ret, chain |-> pkt[s], flagsBefore |-> flags[s],
                     flagsAfter |-> r.flags, pktAfter |-> r.pkt, inDrive |-> drive]
     /\ pkt' = [pkt EXCEPT ![s] = r.pkt]
     /\ got' = IF drive
               THEN [got EXCEPT ![s] = [called |-> TRUE, ret |-> r.ret, packet |-> r.packet]]
               ELSE got

(***************************************************************************)
(* coap_read: the Receive Path runs for every socket marked CAN_READ.      *)
(***************************************************************************)
\* sockets coap_read has not looked at yet that are marked CAN_READ
Readable == {s \in Socks : s >= idx /\ "CAN_READ" \in flags[s]}

CoapReadStep(junk) ==
  /\ pc = "read"
  /\ Readable # {}
  /\ LET s == CHOOSE x \in Readable : \A y \in Readable : x <= y
     IN /\ idx' = s + 1
        /\ NetworkRead(s, junk, TRUE)
  /\ ticks' = [ticks EXCEPT !.clk = @ + 1]
  /\ UNCHANGED <<endpoint, queue, pc, sockets, timeout, timeout_ms, libTimeout,
                 reg, msg, rcvd, waited, nread, woken, unreleased, nunreg, ndeq>>
  /\ UNCHANGED lastSend

CoapReadDone ==
  /\ pc = "read"
  /\ Readable = {}
  /\ pc' = "cleanup"
  /\ ticks' = [ticks EXCEPT !.readEnd = ticks.clk, !.clk = @ + 1]
  /\ UNCHANGED <<endpoint, flags, pkt, queue, sockets, timeout, timeout_ms,
                 libTimeout, reg, msg, rcvd, waited, nread, idx, packet,
                 lastRead, got, woken, unreleased, nunreg, ndeq>>
  /\ UNCHANGED lastSend

(***************************************************************************)
(* Lines 229-231: gnrc_netreg_unregister and the return.  No chain has     *)
(* been handed to gnrc_pktbuf_release anywhere on the way.                 *)
(***************************************************************************)
RunOnceCleanup ==
  /\ pc = "cleanup"
  /\ pc' = "idle"
  /\ reg' = FALSE
  /\ sockets' = <<>>
  /\ timeout' = 0
  /\ timeout_ms' = 0
  /\ libTimeout' = 0
  /\ msg' = NoMsg
  /\ rcvd' = FALSE
  /\ waited' = -1
  /\ nread' = 0
  /\ idx' = 0
  /\ packet' = Unpopulated
  /\ lastRead' = NoRead
  /\ got' = [s \in Socks |-> NoResult]
  /\ woken' = {}
  /\ nunreg' = nunreg + 1
  /\ ndeq' = 0
  /\ ticks' = [ticks EXCEPT !.ret = Elapsed(ticks.before, ticks.now)]
  /\ UNCHANGED <<endpoint, flags, pkt, queue, unreleased>>
  /\ UNCHANGED lastSend

(***************************************************************************)
(* coap_read is entered again for a socket it has already looked at: the   *)
(* protocol library calls coap_network_read once more.                     *)
(***************************************************************************)
CallNetworkRead(s, junk) ==
  /\ pc = "read"
  /\ Readable = {}
  /\ NetworkRead(s, junk, FALSE)
  /\ UNCHANGED <<endpoint, queue, pc, sockets, timeout, timeout_ms, libTimeout,
                 reg, msg, rcvd, waited, nread, idx, woken, unreleased, nunreg,
                 ndeq, ticks>>
  /\ UNCHANGED lastSend

Next ==
  \/ \E m \in Msgs : StackDeliver(m)
  \/ \E tmo_ms \in CallerTimeouts, socks \in Gatherable, t \in LibTimeouts :
        RunOnceGather(tmo_ms, socks, t)
  \/ RunOnceWait
  \/ RunOnceDispatch
  \/ RunOnceDrive
  \/ \E junk \in Junk : CoapReadStep(junk)
  \/ CoapReadDone
  \/ RunOnceCleanup
  \/ \E s \in Socks, junk \in Junk : CallNetworkRead(s, junk)

Spec == Init /\ [][Next]_vars

(***************************************************************************)
(* coap_network_read on its own: called on sockets whose flags and pending *)
(* chain are any the caller may hand in, a chain without a UDP snip and no *)
(* chain at all included.                                                  *)
(***************************************************************************)
InitRead ==
  /\ endpoint = [k \in 1..NumEndpoints |->
                   [bind_addr |-> [family |-> "AF_INET6", port |-> Port5683], sock |-> k]]
  /\ \E r \in SUBSET {1, 2} :
        flags = [s \in Socks |-> IF s = SessionSock THEN {"WANT_READ", "CONNECTED"}
                                  ELSE IF s \in r THEN {"WANT_READ", "CAN_READ"}
                                  ELSE {"WANT_READ"}]
  /\ \E c1, c2 \in Chains \cup {NullChain} :
        pkt = [s \in Socks |-> IF s = 1 THEN c1 ELSE IF s = 2 THEN c2 ELSE NullChain]
  /\ queue = <<>>
  /\ pc = "call"
  /\ sockets = <<>>
  /\ timeout = 0
  /\ timeout_ms = 0
  /\ libTimeout = 0
  /\ reg = FALSE
  /\ msg = NoMsg
  /\ rcvd = FALSE
  /\ waited = -1
  /\ nread = 0
  /\ idx = 0
  /\ packet = Unpopulated
  /\ lastRead = NoRead
  /\ got = [s \in Socks |-> NoResult]
  /\ woken = {}
  /\ unreleased = 0
  /\ nunreg = 0
  /\ ndeq = 0
  /\ ticks = NoTicks
  /\ lastSend = NoSend

ReadCall(s, junk) ==
  /\ pc = "call"
  /\ NetworkRead(s, junk, FALSE)
  /\ UNCHANGED <<endpoint, queue, pc, sockets, timeout, timeout_ms, libTimeout,
                 reg, msg, rcvd, waited, nread, idx, woken, unreleased, nunreg,
                 ndeq, ticks>>
  /\ UNCHANGED lastSend

NextRead == \E s \in Socks, junk \in Junk : ReadCall(s, junk)

SpecRead == InitRead /\ [][NextRead]_vars

(***************************************************************************)
(* The message queue with room for more than one notification: one         *)
(* endpoint configuration, and notifications posted behind the ones that   *)
(* are already waiting.                                                    *)
(***************************************************************************)
QueueMsgs == {[type |-> "RCV", ptr |-> WellFormedChain(Port5683, Len(Hello))],
              [type |-> "SND", ptr |-> NullChain]}

InitQueue ==
  /\ Init
  /\ endpoint[1].bind_addr = [family |-> "AF_INET6", port |-> Port5683]
  /\ "WANT_READ" \in flags[1]

StackDeliverBehind(m) ==
  /\ pc \in {"idle", "wait"}
  /\ queue # <<>>
  /\ Len(queue) < MaxQueue + 1
  /\ m.type = "RCV" => reg
  /\ queue' = Append(queue, m)
  /\ UNCHANGED <<endpoint, flags, pkt, pc, sockets, timeout, timeout_ms,
                 libTimeout, reg, msg, rcvd, waited, nread, idx, packet,
                 lastRead, got, woken, unreleased, nunreg, ndeq, ticks>>
  /\ UNCHANGED lastSend

NextQueue ==
  \/ Next
  \/ \E m \in QueueMsgs : StackDeliverBehind(m)

SpecQueue == InitQueue /\ [][NextQueue]_vars

(***************************************************************************)
(* coap_network_send on its own: called on connected and unconnected       *)
(* sockets, with the debug hook letting the packet through or not, and     *)
(* with the network accepting the datagram or failing.                     *)
(***************************************************************************)
RemoteAddrs ==
  {Sockaddr6(PeerAddr, PeerPort),
   [Sockaddr6(LocalAddr, Port5684) EXCEPT !.family = "AF_INET", !.size = SizeofSockaddrIn]}
DebugResults == {0, 1}
NetResults(datalen) == {-1, datalen}

InitSend ==
  /\ endpoint = [k \in 1..NumEndpoints |->
                   [bind_addr |-> [family |-> "AF_INET6", port |-> Port5683], sock |-> k]]
  /\ \E c \in SUBSET Socks :
        flags = [s \in Socks |-> IF s \in c THEN {"WANT_READ", "CONNECTED"}
                                  ELSE {"WANT_READ"}]
  /\ pkt = [s \in Socks |-> NullChain]
  /\ queue = <<>>
  /\ pc = "send"
  /\ sockets = <<>>
  /\ timeout = 0
  /\ timeout_ms = 0
  /\ libTimeout = 0
  /\ reg = FALSE
  /\ msg = NoMsg
  /\ rcvd = FALSE
  /\ waited = -1
  /\ nread = 0
  /\ idx = 0
  /\ packet = Unpopulated
  /\ lastRead = NoRead
  /\ got = [s \in Socks |-> NoResult]
  /\ woken = {}
  /\ unreleased = 0
  /\ nunreg = 0
  /\ ndeq = 0
  /\ ticks = NoTicks
  /\ lastSend = NoSend

SendCall(s, remote_addr, datalen, dbg, netret) ==
  /\ pc = "send"
  /\ LET r == coap_network_send(flags[s], fd(s), remote_addr, datalen, dbg, netret)
     IN /\ flags' = [flags EXCEPT ![s] = r.flags]
        /\ lastSend' = [called |-> TRUE, sock |-> s, flagsBefore |-> flags[s],
                        remote_addr |-> remote_addr, datalen |-> datalen,
                        dbg |-> dbg, netret |-> netret, ret |-> r.ret,
                        calls |-> r.calls, logged |-> r.logged]
  /\ UNCHANGED <<endpoint, pkt, queue, pc, sockets, timeout, timeout_ms,
                 libTimeout, reg, msg, rcvd, waited, nread, idx, packet,
                 lastRead, got, woken, unreleased, nunreg, ndeq, ticks>>

NextSend ==
  \E s \in Socks, remote_addr \in RemoteAddrs, datalen \in PayloadLens,
     dbg \in DebugResults :
    \E netret \in NetResults(datalen) : SendCall(s, remote_addr, datalen, dbg, netret)

SpecSend == InitSend /\ [][NextSend]_vars

TypeOK ==
  /\ pc \in {"idle", "wait", "dispatch", "drive", "read", "cleanup", "call", "send"}
  /\ \A s \in Socks : flags[s] \subseteq {"WANT_READ", "CAN_READ", "CONNECTED"}
  /\ Len(queue) <= MaxQueue + 1
  /\ Len(sockets) <= LIBCOAP_MAX_SOCKETS

(***************************************************************************)
(* Properties.                                                             *)
(***************************************************************************)
Min(a, b) == IF a <= b THEN a ELSE b
UdpOf(c) == gnrc_pktsnip_search_type(c, "UDP")
PayloadOf(c) == BytesBefore(c, UdpOf(c))
HasType(c, t) == \E i \in 1..Len(c) : c[i].type = t
\* both headers are there and the UDP snip holds a whole header
WellFormed(c) ==
  /\ HasType(c, "IPV6")
  /\ HasType(c, "UDP")
  /\ ~c[UdpOf(c)].null
  /\ c[UdpOf(c)].size = SizeofUdpHdr
\* the network header, the UDP snip or the UDP snip's data is missing
LacksHeader(c) ==
  \/ ~HasType(c, "IPV6")
  \/ ~HasType(c, "UDP")
  \/ \E i \in 1..Len(c) : c[i].type = "UDP" /\ c[i].null
\* both headers are there, but the chain up to the UDP snip is shorter than a header
TruncatedHeader(c) ==
  /\ ~LacksHeader(c)
  /\ gnrc_pkt_len_upto(c, "UDP") < SizeofUdpHdr
Bound(ep) == ep.bind_addr.family \in {"AF_INET", "AF_INET6"}
Gathered(s) == \E i \in 1..Len(sockets) : sockets[i] = s
ReadOnReadable == lastRead.sock # 0 /\ "CAN_READ" \in lastRead.flagsBefore
AfterDispatch == pc \in {"drive", "read", "cleanup"}

\* C1: when coap_run_once has dequeued a RECEIVE notification with a
\* well-formed datagram for port P of payload length L <= capacity, and an
\* endpoint bound to P has its socket among the gathered ones with WANT_READ,
\* then by the end of the drive phase coap_read has called the Receive Path
\* on that socket and the record has length L, the datagram's payload and
\* destination port P.
C1_EndToEndDelivery ==
  \A k \in 1..NumEndpoints :
    LET ep == endpoint[k]
        s == ep.sock
        c == msg.ptr
        L == Len(PayloadOf(c))
    IN (/\ pc = "cleanup"
        /\ rcvd
        /\ msg.type = "RCV"
        /\ WellFormed(c)
        /\ Bound(ep)
        /\ c[UdpOf(c)].dst = ep.bind_addr.port
        /\ Gathered(s)
        /\ "WANT_READ" \in flags[s]
        /\ L <= COAP_RXBUFFER_SIZE)
       => /\ got[s].called
          /\ got[s].ret = L
          /\ got[s].packet.length = L
          /\ \A i \in 1..L : got[s].packet.payload[i] = PayloadOf(c)[i]
          /\ got[s].packet.dst.port = ep.bind_addr.port

\* the "hello" datagram for port 5683 has been delivered to the second endpoint
C1_Witness ==
  /\ pc = "cleanup"
  /\ rcvd
  /\ msg = [type |-> "RCV", ptr |-> WellFormedChain(Port5683, Len(Hello))]
  /\ Gathered(2)
  /\ got[2].called
  /\ got[2].packet.length = Len(Hello)
  /\ \A i \in 1..Len(Hello) : got[2].packet.payload[i] = Hello[i]
  /\ got[2].packet.dst.port = Port5683

\* C2: a RECEIVE notification for destination port P1 never wakes (sets
\* CAN_READ on, or attaches the chain to) the socket of an endpoint bound to
\* another port; every socket it wakes belongs to an endpoint bound to P1.
C2_DemuxIsolation ==
  (AfterDispatch /\ msg.type = "RCV" /\ get_udp_header(msg.ptr) # 0)
  => LET P1 == msg.ptr[get_udp_header(msg.ptr)].dst
     IN /\ \A k \in 1..NumEndpoints :
             (Bound(endpoint[k]) /\ endpoint[k].bind_addr.port # P1)
             => endpoint[k].sock \notin woken
        /\ \A s \in woken :
             \E k \in 1..NumEndpoints :
               /\ endpoint[k].sock = s
               /\ Bound(endpoint[k])
               /\ endpoint[k].bind_addr.port = P1

\* two endpoints on different ports, both sockets gathered and wanting to read:
\* the datagram for port 5684 has woken the first socket only
C2_Witness ==
  /\ pc = "drive"
  /\ msg.type = "RCV"
  /\ get_udp_header(msg.ptr) # 0
  /\ msg.ptr[get_udp_header(msg.ptr)].dst = Port5684
  /\ endpoint[1].bind_addr.port = Port5684
  /\ endpoint[2].bind_addr.port = Port5683
  /\ Gathered(1) /\ Gathered(2)
  /\ "WANT_READ" \in flags[2]
  /\ woken = {1}

\* C3: one dispatch wakes at most one socket, also when several endpoints
\* share the destination port.
C3_AtMostOneWoken == AfterDispatch => Cardinality(woken) <= 1

\* C4: every Receive Path call leaves CAN_READ cleared, whether it succeeds
\* or faults, and a further call on the same socket with no dispatch in
\* between returns -1 and fills no record.
C4_NoDoubleDrain ==
  /\ lastRead.sock # 0 =>
       /\ "CAN_READ" \notin lastRead.flagsAfter
       /\ "CAN_READ" \notin flags[lastRead.sock]
  /\ lastRead.again =>
       /\ lastRead.ret = -1
       /\ packet = Unpopulated

\* a socket woken by the dispatch and drained by coap_read has been read again
C4_Witness ==
  /\ lastRead.again
  /\ lastRead.sock \in woken
  /\ got[lastRead.sock].called
  /\ got[lastRead.sock].ret >= 0
  /\ lastRead.ret = -1

\* C5: a chain with both headers whose length up to the UDP snip is below
\* the header size makes the Receive Path return a negative code and leave
\* the record alone.
C5_TruncatedHeaderFaults ==
  (ReadOnReadable /\ TruncatedHeader(lastRead.chain))
  => (lastRead.ret < 0 /\ packet = Unpopulated)

\* C6: for a well-formed datagram with payload length L the Receive Path
\* returns min(L, capacity), sets the record's length to it, and copies that
\* many bytes from behind the UDP header and no more.
C6_PayloadLength ==
  (ReadOnReadable /\ WellFormed(lastRead.chain))
  => LET c == lastRead.chain
         L == Len(PayloadOf(c))
         n == Min(L, COAP_RXBUFFER_SIZE)
     IN /\ lastRead.ret = n
        /\ packet.length = n
        /\ packet.length <= COAP_RXBUFFER_SIZE
        /\ \A i \in 1..COAP_RXBUFFER_SIZE :
             packet.payload[i] = IF i <= n THEN PayloadOf(c)[i] ELSE Uninit

\* a datagram longer than the buffer has been read and cut to the capacity
C6_Witness ==
  /\ ReadOnReadable
  /\ WellFormed(lastRead.chain)
  /\ Len(PayloadOf(lastRead.chain)) > COAP_RXBUFFER_SIZE
  /\ lastRead.ret = COAP_RXBUFFER_SIZE
  /\ packet.length = COAP_RXBUFFER_SIZE

\* C7: a pending chain without the network header, without the UDP snip or
\* with a UDP snip without data makes the Receive Path return a negative
\* code and write no field of the record.
C7_MalformedRejected ==
  (ReadOnReadable /\ LacksHeader(lastRead.chain))
  => (lastRead.ret < 0 /\ packet = Unpopulated)

\* a chain that has no UDP snip was pending on a readable socket and was rejected
C7_Witness ==
  /\ ReadOnReadable
  /\ lastRead.chain # NullChain
  /\ ~HasType(lastRead.chain, "UDP")
  /\ lastRead.ret < 0

\* C8: a Receive Path call on a socket without CAN_READ returns -1 and
\* leaves the socket's flags, its pending chain and the record as they were.
C8_ReceivePrecondition ==
  (lastRead.sock # 0 /\ "CAN_READ" \notin lastRead.flagsBefore)
  => /\ lastRead.ret = -1
     /\ lastRead.flagsAfter = lastRead.flagsBefore
     /\ flags[lastRead.sock] = lastRead.flagsBefore
     /\ lastRead.pktAfter = lastRead.chain
     /\ pkt[lastRead.sock] = lastRead.chain
     /\ packet = Unpopulated

\* a socket that wants to read and still holds an old chain was read without CAN_READ
C8_Witness ==
  /\ lastRead.sock # 0
  /\ lastRead.flagsBefore = {"WANT_READ"}
  /\ lastRead.chain # NullChain
  /\ lastRead.ret = -1

\* C9: the duration handed to the blocking receive is at most the clamped
\* timeout, min(library timeout, caller's timeout) or the caller's timeout
\* when the library's is 0, in microseconds.
C9_BoundedWait ==
  pc = "dispatch"
  => waited <= US_PER_MS * (IF libTimeout # 0 THEN Min(libTimeout, timeout_ms)
                            ELSE timeout_ms)

\* C10: coap_read is called exactly once in every coap_run_once, after the
\* dispatch, whatever the wait and the dispatch did.
C10_DriveAlwaysRuns ==
  /\ pc \in {"wait", "dispatch", "drive"} => nread = 0
  /\ pc \in {"read", "cleanup"} => nread = 1

\* the wait timed out, and coap_read has run all the same
C10_Witness ==
  /\ pc = "cleanup"
  /\ ~rcvd
  /\ msg.type \notin {"RCV"}
  /\ nread = 1

InCall == pc \in {"wait", "dispatch", "drive", "read", "cleanup"}
\* the latest coap_run_once has returned
Returned == pc = "idle" /\ nunreg > 0

\* C11: no chain that coap_run_once took from the queue in a RECEIVE
\* notification is still unreleased once that call has returned.
C11_ChainReleased == Returned => unreleased = 0

C16_RegistrationPairing ==
  /\ (InCall /\ \E i \in 1..Len(sockets) : "WANT_READ" \in flags[sockets[i]]) => reg
  /\ InCall => nunreg = 0
  /\ pc = "idle" => ~reg
  /\ (pc = "idle" /\ ticks.clk # 0) => nunreg = 1

\* a call that was registered, and got a datagram through it, has returned
C16_Witness ==
  /\ pc = "idle"
  /\ nunreg = 1
  /\ unreleased = 1
  /\ ~reg

\* C18: after a successful Receive Path call the record's source is the
\* network header's source address with the UDP source port, its destination
\* the network header's destination address with the UDP destination port,
\* both tagged AF_INET6 with the size of sockaddr_in6 and zero elsewhere.
C18_AddressPopulation ==
  (ReadOnReadable /\ lastRead.ret >= 0)
  => LET c == lastRead.chain
         u == CHOOSE i \in 1..Len(c) : c[i].type = "UDP"
         n == CHOOSE i \in 1..Len(c) : c[i].type = "IPV6"
     IN /\ packet.src = [size |-> SizeofSockaddrIn6, family |-> "AF_INET6",
                         port |-> c[u].src, addr |-> c[n].src,
                         flowinfo |-> 0, scope_id |-> 0]
        /\ packet.dst = [size |-> SizeofSockaddrIn6, family |-> "AF_INET6",
                         port |-> c[u].dst, addr |-> c[n].dst,
                         flowinfo |-> 0, scope_id |-> 0]

\* the datagram from the peer to port 5684 has been read
C18_Witness ==
  /\ ReadOnReadable
  /\ lastRead.ret >= 0
  /\ packet.src.addr = PeerAddr /\ packet.src.port = PeerPort
  /\ packet.dst.addr = LocalAddr /\ packet.dst.port = Port5684

\* C19: the first tick sample precedes the gather phase, the second one is
\* taken after coap_read has returned, and the result is computed from them.
C19_SecondSampleAfterDrive ==
  Returned =>
    /\ ticks.before < ticks.write
    /\ ticks.now > ticks.readEnd
    /\ ticks.ret * COAP_TICKS_PER_SECOND = (ticks.now - ticks.before) * 1000

\* C17: one call of coap_run_once takes at most one notification off the
\* queue, the one at its head, in its single wait; every other notification
\* stays queued behind it in the order it was posted, and no other step of
\* the call shortens or reorders the queue.
C17_SingleNotification ==
  /\ [](ndeq <= 1 /\ unreleased <= 1)
  /\ [][queue' # queue =>
          \/ \E m \in Msgs : queue' = Append(queue, m)
          \/ /\ pc = "wait"
             /\ queue # <<>>
             /\ ndeq = 0
             /\ ndeq' = 1
             /\ msg' = Head(queue)
             /\ queue' = Tail(queue)]_vars
\* a call took a datagram and returned while a datagram posted behind it is
\* still queued
C17_Witness ==
  /\ Returned
  /\ unreleased = 1
  /\ Len(queue) = 1
  /\ Head(queue).type = "RCV"

Suppressed == lastSend.dbg = 0
SentOn(s) == lastSend.called /\ lastSend.sock = s /\ ~Suppressed

\* C12: with the debug hook suppressing the packet, coap_network_send returns
\* the buffer length and sends nothing; otherwise a socket with CONNECTED
\* makes exactly one send of the whole buffer with no destination, and a
\* socket without CONNECTED makes exactly one sendto of the whole buffer to
\* the session's stored peer address with that address's stored size.
C12_SendPathSelection ==
  lastSend.called =>
    /\ Suppressed => lastSend.ret = lastSend.datalen /\ lastSend.calls = <<>>
    /\ (~Suppressed /\ "CONNECTED" \in lastSend.flagsBefore) =>
          lastSend.calls = <<[op |-> "send", fd |-> fd(lastSend.sock),
                              len |-> lastSend.datalen, flags |-> 0, to |-> <<>>]>>
    /\ (~Suppressed /\ "CONNECTED" \notin lastSend.flagsBefore) =>
          lastSend.calls = <<[op |-> "sendto", fd |-> fd(lastSend.sock),
                              len |-> lastSend.datalen, flags |-> 0,
                              to |-> <<lastSend.remote_addr, lastSend.remote_addr.size>>]>>
\* a connected socket sent a full buffer although the session holds a peer address
C12_Witness ==
  /\ SentOn(SessionSock)
  /\ "CONNECTED" \in lastSend.flagsBefore
  /\ lastSend.datalen = MaxPayload
  /\ lastSend.remote_addr = Sockaddr6(PeerAddr, PeerPort)
  /\ Len(lastSend.calls) = 1
  /\ lastSend.calls[1].op = "send"

\* C13: when send or sendto returns a negative value, coap_network_send
\* returns that value after exactly one send attempt and leaves the socket's
\* flags as they were.
C13_SendFailureSurfaced ==
  (lastSend.called /\ ~Suppressed /\ lastSend.netret < 0) =>
    /\ lastSend.ret = lastSend.netret
    /\ Len(lastSend.calls) = 1
    /\ flags[lastSend.sock] = lastSend.flagsBefore
\* a sendto on an unconnected socket failed
C13_Witness ==
  /\ SentOn(1)
  /\ "CONNECTED" \notin lastSend.flagsBefore
  /\ lastSend.netret = -1
  /\ lastSend.ret = -1
  /\ lastSend.logged
  /\ lastSend.calls[1].op = "sendto"

====
